---- MODULE Spec2Model ----
(***************************************************************************)
(* Model of the schema compiler of webappbot (src/src/webapp.ts).          *)
(*                                                                         *)
(* Representation of the JavaScript data:                                  *)
(*  - a string is the sequence of its dot-separated segments, so that      *)
(*    "partials.Base" is <<"partials", "Base">> and "name" is <<"name">>;   *)
(*    a regular expression on dots becomes a test on that sequence;        *)
(*  - an object is the sequence of its entries [k |-> key, v |-> value] in *)
(*    insertion order (the order Object.keys and for-in enumerate);        *)
(*  - a cell or property value is a record tagged by its typeof.           *)
(***************************************************************************)
EXTENDS Integers, Sequences, FiniteSets, TLC

VARIABLES
  pc,          \* position of the running function
  workbook,    \* the workbook XLSX.readFile returned (xlsxToJSON)
  modelsData,  \* xlsxToJSON: let modelsData
  partials,    \* xlsxToJSON: let partials
  routesData,  \* xlsxToJSON: let routesData
  modelsFile,  \* data/models.json
  routesFile,  \* data/routesFromModels.json
  promise,     \* the promise xlsxToJSON returned
  pmField,     \* processModels: the field object under type resolution
  pmImports,   \* processModels: let imports of the model being processed
  pmCursor,    \* processModels: the package/model pairs its loops have yet to visit
  pmAllModelStrs,  \* processModels: let allModelStrs
  pmHierarchy, \* processModels: let allModelsWithHierarchyData
  pmRendered,  \* the data of every ejs.render of the models template
  pmDb,        \* the data of the ejs.render of the db.go template
  pmSorted,    \* processModels: const sortedModels
  pmFlow       \* downloadAndUnzipFromGithub: the files and the phases of a create

vars == <<pc, workbook, modelsData, partials, routesData, modelsFile,
          routesFile, promise, pmField, pmImports, pmCursor, pmAllModelStrs,
          pmHierarchy, pmRendered, pmDb, pmSorted, pmFlow>>

\* What xlsxToJSON does not touch.
modelVars == <<pmField, pmImports, pmCursor, pmAllModelStrs, pmHierarchy,
               pmRendered, pmDb, pmSorted, pmFlow>>

\* What the loop of processModels over the models does not touch.
emitVars == <<pmDb, pmSorted>>

\* What processModels does not touch.
compileVars == <<workbook, partials, routesData, modelsFile, routesFile, promise,
                 pmFlow>>

\* No create is running.
NoFlow == <<>>

----------------------------------------------------------------------------
(* Strings *)

S(x) == <<x>>

\* String.prototype.toLowerCase / toLocaleLowerCase on one segment, over the
\* words the model's workbooks use.
LowerSeg(x) ==
  CASE x = "Create"   -> "create"
    [] x = "CREATE"   -> "create"
    [] x = "Read"     -> "read"
    [] x = "Update"   -> "update"
    [] x = "UPDATE"   -> "update"
    [] x = "Delete"   -> "delete"
    [] x = "Required" -> "required"
    [] x = "REQUIRED" -> "required"
    [] x = "Optional" -> "optional"
    [] x = "OPTIONAL" -> "optional"
    [] x = "Maybe"    -> "maybe"
    [] x = "Int"      -> "int"
    [] x = "String"   -> "string"
    [] x = "Type"     -> "type"
    [] x = "Primary"  -> "primary"
    [] x = "Field"    -> "field"
    [] x = "AutoCreate" -> "autocreate"
    [] OTHER          -> x

Lower(s) == [i \in DOMAIN s |-> LowerSeg(s[i])]

----------------------------------------------------------------------------
(* Objects: ordered maps *)

Keys(o) == [i \in DOMAIN o |-> o[i].k]

Has(o, key) == \E i \in DOMAIN o : o[i].k = key

Idx(o, key) == CHOOSE i \in DOMAIN o : o[i].k = key

Get(o, key) == o[Idx(o, key)].v

\* o[key] = val: an existing key keeps its place, a new key goes last.
Put(o, key, val) ==
  IF Has(o, key)
    THEN [o EXCEPT ![Idx(o, key)] = [k |-> key, v |-> val]]
    ELSE Append(o, [k |-> key, v |-> val])

\* delete o[key]
Del(o, key) == SelectSeq(o, LAMBDA e : e.k # key)

KeySet(o) == {o[i].k : i \in DOMAIN o}

SeqToSet(s) == {s[i] : i \in DOMAIN s}

----------------------------------------------------------------------------
(* Values *)

Str(s)  == [t |-> "string", s |-> s]
Bool(b) == [t |-> "boolean", b |-> b]
Obj(o)  == [t |-> "object", o |-> o]

\* JavaScript truthiness of a cell value (if (Model), if (Type)).
Truthy(v) ==
  CASE v.t = "string"  -> v.s # S("")
    [] v.t = "boolean" -> v.b
    [] OTHER           -> TRUE

----------------------------------------------------------------------------
(* The workbooks the model compiles *)

MaxRows == 2         \* rows of the model sheets of a workbook
MaxPartialRows == 1  \* rows of the sheet named partials

P(key, val) == [k |-> S(key), v |-> val]

Text(x) == Str(S(x))

\* The Field cell and the property columns of a row of a model sheet.
ModelCells ==
  { [field |-> S("id"),
     props |-> <<P("Type", Text("uuid")), P("Primary", Bool(TRUE))>>],
    [field |-> S("name"),
     props |-> <<P("Type", Text("string")), P("Create", Text("required")),
                 P("Read", Text("required"))>>],
    [field |-> S("name"),
     props |-> <<P("Create", Text("Required")), P("create", Text("optional"))>>],
    [field |-> S("id"),
     props |-> <<P("Type", Text("Int")), P("UPDATE", Text("OPTIONAL")),
                 P("Delete", Text("maybe"))>>],
    [field |-> S("id"),
     props |-> <<P("Create", Bool(TRUE))>>],
    [field |-> <<"partials", "Base">>, props |-> <<>>] }

\* The same for a row of the sheet named partials.
PartialCells ==
  { [field |-> S("id"),
     props |-> <<P("Type", Text("string")), P("Read", Text("optional"))>>],
    [field |-> <<"partials", "Audit">>, props |-> <<>>] }

\* A row as sheet_to_json returns it: the columns in sheet order, an empty
\* cell left out. model = "" is a row with an empty Model cell.
Row(model, cell) ==
  (IF model = "" THEN <<>> ELSE <<P("Model", Text(model))>>)
    \o <<[k |-> S("Field"), v |-> Str(cell.field)]>> \o cell.props

ModelRows == {Row(m, c) : m \in {"", "User", "Post"}, c \in ModelCells}

PartialRows == {Row(m, c) : m \in {"", "Base"}, c \in PartialCells}

SeqsUpTo(set, n) == UNION {[1..i -> set] : i \in 0..n}

\* The sheet users: empty, or rows that open with model User.
UserSheets ==
  {rows \in SeqsUpTo(ModelRows, MaxRows) :
     rows = <<>> \/ (Has(rows[1], S("Model")) /\ Get(rows[1], S("Model")) = Text("User"))}

\* The sheet partials: empty, or the rows of the partial Base.
PartialSheets ==
  {rows \in SeqsUpTo(PartialRows, MaxPartialRows) :
     \A i \in DOMAIN rows : Has(rows[i], S("Model")) <=> i = 1}

\* The second model sheet of every workbook; its last variant has a
\* relationship field with a permission marker.
BlogSheets ==
  { <<Row("", [field |-> S("title"), props |-> <<P("Type", Text("string"))>>])>>,
    <<Row("Post", [field |-> S("title"),
                   props |-> <<P("Type", Text("string")),
                               P("Read", Text("optional"))>>])>>,
    <<Row("Post", [field |-> <<"users", "User">>,
                   props |-> <<P("Type", Text("uuid")),
                               P("Create", Text("required"))>>])>> }

Workbook(users, blog, parts) ==
  [SheetNames |-> <<S("users"), S("blog"), S("partials")>>,
   Sheets |-> <<[k |-> S("users"), v |-> users], [k |-> S("blog"), v |-> blog],
                [k |-> S("partials"), v |-> parts]>>]

\* The end-to-end example: sheet users with the rows of model User.
ExampleWorkbook ==
  Workbook(
    << Row("User", [field |-> S("id"),
                    props |-> <<P("Type", Text("uuid")), P("Primary", Bool(TRUE))>>]),
       Row("", [field |-> S("name"),
                props |-> <<P("Type", Text("string")), P("Create", Text("required")),
                            P("Read", Text("required"))>>]),
       Row("", [field |-> S("createdAt"),
                props |-> <<P("Type", Text("time")), P("AutoCreate", Bool(TRUE))>>]) >>,
    <<>>, <<>>)

Workbooks ==
  {Workbook(u, b, p) : u \in UserSheets, b \in BlogSheets,
                       p \in PartialSheets}
    \cup {ExampleWorkbook}

----------------------------------------------------------------------------
(* SheetExtractor *)

getSheetsHavingModels(wb) ==
  SelectSeq(wb.SheetNames,
            LAMBDA sheetName :
              LET data == Get(wb.Sheets, sheetName)
              IN  /\ Len(data) > 0
                  /\ Len(data[1]) > 0
                  /\ Keys(data[1])[1] = S("Model"))

\* delete item.Model, with the mutant that deletes nothing.
stripItemKeepingAll(item) == item

stripItem(item) == Del(item, S("Model"))

\* The body of data.map((item) => ...): st is the state of the closure
\* (modelsData, partials, modelKey); threw records a TypeError on writing
\* into an undefined container.
extractItem(st, sheetName, item) ==
  IF st.threw THEN st
  ELSE
    LET hasModel == Has(item, S("Model")) /\ Truthy(Get(item, S("Model")))
        modelKey == IF hasModel THEN Get(item, S("Model")).s ELSE st.modelKey
        Field == IF Has(item, S("Field")) THEN Get(item, S("Field")).s
                                          ELSE S("undefined")
        isPartials == sheetName = S("partials")
        partials1 == IF hasModel /\ isPartials
                       THEN Put(st.partials, modelKey, <<>>)
                       ELSE st.partials
        md0 == IF hasModel /\ ~isPartials /\ ~Has(st.modelsData, sheetName)
                 THEN Put(st.modelsData, sheetName, <<>>)
                 ELSE st.modelsData
        md1 == IF hasModel /\ ~isPartials
                 THEN Put(md0, sheetName, Put(Get(md0, sheetName), modelKey, <<>>))
                 ELSE md0
        item1 == stripItem(item)
    IN  IF isPartials
          THEN IF ~Has(partials1, modelKey)
                 THEN [st EXCEPT !.threw = TRUE]
                 ELSE [st EXCEPT
                         !.modelKey = modelKey,
                         !.partials = Put(partials1, modelKey,
                                          Put(Get(partials1, modelKey), Field, item1))]
          ELSE IF ~Has(md1, sheetName) \/ ~Has(Get(md1, sheetName), modelKey)
                 THEN [st EXCEPT !.threw = TRUE]
                 ELSE [st EXCEPT
                         !.modelKey = modelKey,
                         !.partials = partials1,
                         !.modelsData =
                            Put(md1, sheetName,
                                Put(Get(md1, sheetName), modelKey,
                                    Put(Get(Get(md1, sheetName), modelKey),
                                        Field, item1)))]

RECURSIVE extractRows(_, _, _)
extractRows(st, sheetName, data) ==
  IF data = <<>> THEN st
  ELSE extractRows(extractItem(st, sheetName, Head(data)), sheetName, Tail(data))

RECURSIVE extractSheets(_, _, _)
extractSheets(st, wb, sheetNames) ==
  IF sheetNames = <<>> THEN st
  ELSE extractSheets(extractRows(st, Head(sheetNames),
                                 Get(wb.Sheets, Head(sheetNames))),
                     wb, Tail(sheetNames))

getModelsDataAndPartialsFromWorkbook(wb) ==
  extractSheets([modelsData |-> <<>>, partials |-> <<>>, modelKey |-> S(""),
                 threw |-> FALSE],
                wb, getSheetsHavingModels(wb))

----------------------------------------------------------------------------
(* PartialResolver *)

\* key.match(/^partials\./)
matchesPartials(key) == Len(key) >= 2 /\ key[1] = "partials"

\* key.replace(/partials\./, '') for a key that matches ^partials\.
partialName(key) == Tail(key)

\* The mutant of copyPartial that leaves the fields retModel already has.
RECURSIVE copyPartialKeepingExisting(_, _)
copyPartialKeepingExisting(retModel, partialsData) ==
  IF partialsData = <<>> THEN retModel
  ELSE copyPartialKeepingExisting(
         IF Has(retModel, Head(partialsData).k) THEN retModel
         ELSE Put(retModel, Head(partialsData).k, Head(partialsData).v),
         Tail(partialsData))

\* Object.keys(partialsData).map(...): copy the partial's fields into retModel.
RECURSIVE copyPartial(_, _)
copyPartial(retModel, partialsData) ==
  IF partialsData = <<>> THEN retModel
  ELSE copyPartial(Put(retModel, Head(partialsData).k, Head(partialsData).v),
                   Tail(partialsData))

\* for (let key in model): the fields left to visit are rest.
RECURSIVE fillModel(_, _, _)
fillModel(retModel, rest, parts) ==
  IF rest = <<>> THEN retModel
  ELSE LET key == Head(rest).k
       IN  IF ~matchesPartials(key)
             THEN fillModel(Put(retModel, key, Head(rest).v), Tail(rest), parts)
             ELSE fillModel(copyPartial(retModel, Get(parts, partialName(key))),
                            Tail(rest), parts)

\* Object.keys(undefined) throws a TypeError: a reference to a partial that
\* the bundle does not have.
fillModelThrows(model, parts) ==
  \E i \in DOMAIN model :
    matchesPartials(model[i].k) /\ ~Has(parts, partialName(model[i].k))

fillPartialsThrows(md, parts) ==
  \E i \in DOMAIN md : \E j \in DOMAIN md[i].v :
    fillModelThrows(md[i].v[j].v, parts)

\* Every model of every sheet is replaced by its retModel.
fillPartials(md, parts) ==
  [i \in DOMAIN md |->
     [k |-> md[i].k,
      v |-> [j \in DOMAIN md[i].v |->
               [k |-> md[i].v[j].k, v |-> fillModel(<<>>, md[i].v[j].v, parts)]]]]

----------------------------------------------------------------------------
(* TypeResolver, first half: the registry lookup *)

\* config/types.json: domain type name -> target type.
types ==
  << [k |-> S("uuid"),   v |-> Str(<<"uuid", "UUID">>)],
     [k |-> S("time"),   v |-> Str(<<"time", "Time">>)],
     [k |-> S("string"), v |-> Text("string")],
     [k |-> S("int"),    v |-> Text("int")],
     [k |-> S("float"),  v |-> Text("float")],
     [k |-> S("bool"),   v |-> Text("bool")] >>

typeField(field) ==
  IF Has(field, S("Type")) /\ Truthy(Get(field, S("Type")))
    THEN LET Type == Lower(Get(field, S("Type")).s)
         IN  IF Has(types, Type)
               THEN Put(field, S("typeFromTypes"), Get(types, Type))
               ELSE field
    ELSE field

replaceWebAppTypesWithModelType(md) ==
  [i \in DOMAIN md |->
     [k |-> md[i].k,
      v |-> [j \in DOMAIN md[i].v |->
               [k |-> md[i].v[j].k,
                v |-> [n \in DOMAIN md[i].v[j].v |->
                         [k |-> md[i].v[j].v[n].k,
                          v |-> typeField(md[i].v[j].v[n].v)]]]]]]

----------------------------------------------------------------------------
(* APISectionSegregator *)

Actions == <<S("create"), S("read"), S("update"), S("delete")>>

isApiKey(key) == Lower(key) \in SeqToSet(Actions)

\* The value kept in apiData, with the mutant that keeps the cell's case.
apiValueVerbatim(bby) == bby

apiValue(bby) == Str(Lower(bby.s))

\* The condition of the if in keys.map; it is evaluated left to right, the
\* value's toLocaleLowerCase only for a permission key.
isMarker(key, bby) ==
  isApiKey(key) /\ Lower(bby.s) \in {S("required"), S("optional")}

\* keys.map((key) => ...) over the keys the field had on entry.
RECURSIVE segregateKeys(_, _, _)
segregateKeys(field, apiData, keys) ==
  IF keys = <<>> THEN [field |-> field, apiData |-> apiData]
  ELSE LET key == Head(keys)
           bby == Get(field, key)
       IN  IF isMarker(key, bby)
             THEN segregateKeys(Del(field, key),
                                Put(apiData, Lower(key), apiValue(bby)),
                                Tail(keys))
             ELSE segregateKeys(field, apiData, Tail(keys))

\* The mutant of segregateField that never attaches the api object.
segregateFieldDroppingApi(field) == segregateKeys(field, <<>>, Keys(field)).field

segregateField(field) ==
  LET r == segregateKeys(field, <<>>, Keys(field))
  IN  IF Len(r.apiData) > 0 THEN Put(r.field, S("api"), Obj(r.apiData))
                            ELSE r.field

\* bby.toLocaleLowerCase is not a function: a permission column whose cell is
\* not a string.
segregateFieldThrows(field) ==
  \E i \in DOMAIN field : isApiKey(field[i].k) /\ field[i].v.t # "string"

segregateAPISectionsThrows(md) ==
  \E i \in DOMAIN md : \E j \in DOMAIN md[i].v : \E n \in DOMAIN md[i].v[j].v :
    segregateFieldThrows(md[i].v[j].v[n].v)

segregateAPISections(md) ==
  [i \in DOMAIN md |->
     [k |-> md[i].k,
      v |-> [j \in DOMAIN md[i].v |->
               [k |-> md[i].v[j].k,
                v |-> [n \in DOMAIN md[i].v[j].v |->
                         [k |-> md[i].v[j].v[n].k,
                          v |-> segregateField(md[i].v[j].v[n].v)]]]]]]

----------------------------------------------------------------------------
(* RouteProjector *)

\* keys.map((key) => { if (key !== 'api') delete modelData[field][key] })
stripField(field) == SelectSeq(field, LAMBDA e : e.k = S("api"))

\* The first loop over the fields of a model: strip, then delete the fields
\* left with no property. It works on the objects of the caller.
stripModel(modelData) ==
  SelectSeq([i \in DOMAIN modelData |->
               [k |-> modelData[i].k, v |-> stripField(modelData[i].v)]],
            LAMBDA e : Len(e.v) # 0)

\* Object.keys(modelData).filter(field => keys of its api include action),
\* with the mutant that lists every field.
fieldsOfActionAll(modelData, action) == Keys(modelData)

fieldsOfAction(modelData, action) ==
  Keys(SelectSeq(modelData,
                 LAMBDA e : action \in KeySet(Get(e.v, S("api")).o)))

RECURSIVE routeActions(_, _, _)
routeActions(entry, modelData, actions) ==
  IF actions = <<>> THEN entry
  ELSE LET action == Head(actions)
           list == fieldsOfAction(modelData, action)
       IN  routeActions(IF Len(list) = 0 THEN Del(entry, action)
                                         ELSE Put(entry, action, list),
                        modelData, Tail(actions))

routeModel(modelData) ==
  routeActions([i \in DOMAIN Actions |-> [k |-> Actions[i], v |-> <<>>]],
               modelData, Actions)

\* Object.assign(target, source)
RECURSIVE Assign(_, _)
Assign(target, source) ==
  IF source = <<>> THEN target
  ELSE Assign(Put(target, Head(source).k, Head(source).v), Tail(source))

\* processRoutesDataFromModelsData(routesData): stripped is what the package
\* objects it was given have become, routes is the routesData it returns.
stripModels(md) ==
  [i \in DOMAIN md |->
     [k |-> md[i].k,
      v |-> [j \in DOMAIN md[i].v |->
               [k |-> md[i].v[j].k, v |-> stripModel(md[i].v[j].v)]]]]

reorganize(md) ==
  [i \in DOMAIN md |->
     [k |-> md[i].k,
      v |-> [j \in DOMAIN md[i].v |->
               [k |-> md[i].v[j].k, v |-> routeModel(md[i].v[j].v)]]]]

processRoutesDataFromModelsData(rd) ==
  LET stripped == stripModels(rd)
      reorganized == reorganize(stripped)
  IN  [stripped |-> stripped, routes |-> Assign(rd, reorganized)]

----------------------------------------------------------------------------
(* xlsxToJSON *)

NotWritten == [written |-> FALSE]

Written(json) == [written |-> TRUE, json |-> json]

InitCompile ==
  /\ pc = "extract"
  /\ workbook \in Workbooks
  /\ modelsData = <<>>
  /\ partials = <<>>
  /\ routesData = <<>>
  /\ modelsFile = NotWritten
  /\ routesFile = NotWritten
  /\ promise = "pending"
  /\ pmField = <<>>
  /\ pmImports = <<>>
  /\ pmCursor = <<>>
  /\ pmAllModelStrs = <<>>
  /\ pmHierarchy = <<>>
  /\ pmRendered = <<>>
  /\ pmDb = <<>>
  /\ pmSorted = <<>>
  /\ pmFlow = NoFlow

\* An exception inside the async executor of new Promise: nothing settles
\* the promise.
Hang == pc' = "hung" /\ UNCHANGED promise

Extract ==
  /\ pc = "extract"
  /\ LET r == getModelsDataAndPartialsFromWorkbook(workbook)
     IN  IF r.threw
           THEN Hang /\ UNCHANGED <<modelsData, partials>>
           ELSE /\ modelsData' = r.modelsData
                /\ partials' = r.partials
                /\ pc' = "fillPartials"
                /\ UNCHANGED promise
  /\ UNCHANGED <<workbook, routesData, modelsFile, routesFile>>
  /\ UNCHANGED modelVars

FillPartials ==
  /\ pc = "fillPartials"
  /\ IF fillPartialsThrows(modelsData, partials)
       THEN Hang /\ UNCHANGED modelsData
       ELSE /\ modelsData' = fillPartials(modelsData, partials)
            /\ pc' = "replaceTypes"
            /\ UNCHANGED promise
  /\ UNCHANGED <<workbook, partials, routesData, modelsFile, routesFile>>
  /\ UNCHANGED modelVars

ReplaceTypes ==
  /\ pc = "replaceTypes"
  /\ modelsData' = replaceWebAppTypesWithModelType(modelsData)
  /\ pc' = "segregate"
  /\ UNCHANGED <<workbook, partials, routesData, modelsFile, routesFile, promise>>
  /\ UNCHANGED modelVars

Segregate ==
  /\ pc = "segregate"
  /\ IF segregateAPISectionsThrows(modelsData)
       THEN Hang /\ UNCHANGED modelsData
       ELSE /\ modelsData' = segregateAPISections(modelsData)
            /\ pc' = "routes"
            /\ UNCHANGED promise
  /\ UNCHANGED <<workbook, partials, routesData, modelsFile, routesFile>>
  /\ UNCHANGED modelVars

\* let routesData = Object.assign({}, modelsData) is a shallow copy: the
\* package objects processRoutesDataFromModelsData strips are those of
\* modelsData.
ProcessRoutes ==
  /\ pc = "routes"
  /\ LET r == processRoutesDataFromModelsData(Assign(<<>>, modelsData))
     IN  /\ modelsData' = r.stripped
         /\ routesData' = r.routes
  /\ pc' = "writeModels"
  /\ UNCHANGED <<workbook, partials, modelsFile, routesFile, promise>>
  /\ UNCHANGED modelVars

\* fs.writeFileSync(modelsFilePath, jsonString); a failure is caught and
\* logged, and skips the second write.
WriteModels ==
  /\ pc = "writeModels"
  /\ \E ok \in BOOLEAN :
       IF ok THEN modelsFile' = Written(modelsData) /\ pc' = "writeRoutes"
             ELSE UNCHANGED modelsFile /\ pc' = "resolve"
  /\ UNCHANGED <<workbook, modelsData, partials, routesData, routesFile, promise>>
  /\ UNCHANGED modelVars

WriteRoutes ==
  /\ pc = "writeRoutes"
  /\ \E ok \in BOOLEAN :
       IF ok THEN routesFile' = Written(routesData) ELSE UNCHANGED routesFile
  /\ pc' = "resolve"
  /\ UNCHANGED <<workbook, modelsData, partials, routesData, modelsFile, promise>>
  /\ UNCHANGED modelVars

Resolve ==
  /\ pc = "resolve"
  /\ promise' = "resolved"
  /\ pc' = "done"
  /\ UNCHANGED <<workbook, modelsData, partials, routesData, modelsFile, routesFile>>
  /\ UNCHANGED modelVars

NextCompile ==
  \/ Extract
  \/ FillPartials
  \/ ReplaceTypes
  \/ Segregate
  \/ ProcessRoutes
  \/ WriteModels
  \/ WriteRoutes
  \/ Resolve

Spec == InitCompile /\ [][NextCompile]_vars

----------------------------------------------------------------------------
(* What each phase is given and must produce, as functions of the workbook *)

Extracted  == getModelsDataAndPartialsFromWorkbook(workbook)
Filled     == fillPartials(Extracted.modelsData, Extracted.partials)
Typed      == replaceWebAppTypesWithModelType(Filled)
Segregated == segregateAPISections(Typed)

ModelPaths(md) ==
  UNION {{<<md[i].k, md[i].v[j].k>> : j \in DOMAIN md[i].v} : i \in DOMAIN md}

HasModel(md, mp) == Has(md, mp[1]) /\ Has(Get(md, mp[1]), mp[2])

ModelAt(md, mp) == Get(Get(md, mp[1]), mp[2])

Entries(o) == {<<o[i].k, o[i].v>> : i \in DOMAIN o}

----------------------------------------------------------------------------
(* C1 *)

\* C1: models.json, once written, holds for every package and model every
\* field that extraction and partial resolution produced, each with all its
\* non-permission properties and its api object (deriving the route schema
\* removes nothing from the compiled schema); the users.User example has
\* three fields.
C1_ModelsFileKeepsCompiledSchema ==
  modelsFile.written =>
    /\ LET segregated == Segregated IN
       \A mp \in ModelPaths(segregated) :
         /\ HasModel(modelsFile.json, mp)
         /\ \A e \in SeqToSet(ModelAt(segregated, mp)) :
              /\ Has(ModelAt(modelsFile.json, mp), e.k)
              /\ Entries(e.v) \subseteq Entries(Get(ModelAt(modelsFile.json, mp), e.k))
    /\ workbook = ExampleWorkbook =>
         Len(ModelAt(modelsFile.json, <<S("users"), S("User")>>)) = 3

----------------------------------------------------------------------------
(* C2 *)

RouteList(rd, mp, action) ==
  IF HasModel(rd, mp) /\ Has(ModelAt(rd, mp), action)
    THEN SeqToSet(Get(ModelAt(rd, mp), action))
    ELSE {}

ApiKeys(field) ==
  IF Has(field, S("api")) THEN KeySet(Get(field, S("api")).o) ELSE {}

\* C2: a field is in the route schema list of an action of its model if and
\* only if the action is a key of the field's api object after segregation.
C2_RoutePartition ==
  pc = "writeModels" =>
    LET segregated == Segregated
    IN  \A mp \in ModelPaths(segregated) :
          \A e \in SeqToSet(ModelAt(segregated, mp)) :
            \A a \in SeqToSet(Actions) :
              (e.k \in RouteList(routesData, mp, a)) <=> (a \in ApiKeys(e.v))

\* A field listed under one action and not under another.
C2_Witness ==
  /\ pc = "writeModels"
  /\ LET segregated == Segregated
     IN  \E mp \in ModelPaths(segregated) :
           \E e \in SeqToSet(ModelAt(segregated, mp)) :
             \E a, b \in SeqToSet(Actions) :
               /\ e.k \in RouteList(routesData, mp, a)
               /\ b \notin ApiKeys(e.v)
               /\ e.k \notin RouteList(routesData, mp, b)

----------------------------------------------------------------------------
(* C3, C4 *)

\* A permission marker: a create/read/update/delete column, in any case,
\* whose cell is required or optional, in any case.
MarkerEntry(e) ==
  /\ Lower(e.k) \in {S("create"), S("read"), S("update"), S("delete")}
  /\ e.v.t = "string"
  /\ Lower(e.v.s) \in {S("required"), S("optional")}

\* The marker at i is the last of the field's markers that fold to its key.
LastMarker(F, i) ==
  /\ MarkerEntry(F[i])
  /\ \A j \in DOMAIN F :
       j > i /\ MarkerEntry(F[j]) => Lower(F[j].k) # Lower(F[i].k)

SegregationOfField(F, G, lastOnly) ==
  /\ \A i \in DOMAIN F :
       IF MarkerEntry(F[i])
         THEN /\ ~Has(G, F[i].k)
              /\ Has(G, S("api"))
              /\ Has(Get(G, S("api")).o, Lower(F[i].k))
              /\ (lastOnly => LastMarker(F, i)) =>
                   Get(Get(G, S("api")).o, Lower(F[i].k)) = Str(Lower(F[i].v.s))
         ELSE Has(G, F[i].k) /\ Get(G, F[i].k) = F[i].v
  /\ Has(G, S("api")) <=> \E i \in DOMAIN F : MarkerEntry(F[i])

SegregationHolds(lastOnly) ==
  pc = "routes" =>
    LET typed == Typed
    IN  \A mp \in ModelPaths(typed) :
          \A e \in SeqToSet(ModelAt(typed, mp)) :
            /\ HasModel(modelsData, mp)
            /\ Has(ModelAt(modelsData, mp), e.k)
            /\ SegregationOfField(e.v, Get(ModelAt(modelsData, mp), e.k), lastOnly)

\* C3 as stated: every marker leaves the top level and is in api under the
\* lower-cased key with its own lower-cased value; the other properties are
\* unchanged; api exists iff the field had a marker.
C3_Original == SegregationHolds(FALSE)

\* C3 amended: the same, the value of an api key being that of the last
\* marker column, in column order, that folds to the key.
C3_SegregationLastWins == SegregationHolds(TRUE)

\* A field with an upper-case marker and a property that is no marker.
C3_Witness ==
  /\ pc = "routes"
  /\ LET typed == Typed IN
     \E mp \in ModelPaths(typed) :
       \E e \in SeqToSet(ModelAt(typed, mp)) :
         /\ \E i \in DOMAIN e.v : MarkerEntry(e.v[i]) /\ Lower(e.v[i].k) # e.v[i].k
         /\ \E i \in DOMAIN e.v : ~MarkerEntry(e.v[i])
         /\ Has(Get(ModelAt(modelsData, mp), e.k), S("api"))

\* The entries of the api object merged back with the properties left.
ReMerged(G) ==
  Entries(Del(G, S("api")))
    \cup (IF Has(G, S("api")) THEN Entries(Get(G, S("api")).o) ELSE {})

CaseFolded(F, lastOnly) ==
  {IF MarkerEntry(F[i]) THEN <<Lower(F[i].k), Str(Lower(F[i].v.s))>>
                        ELSE <<F[i].k, F[i].v>> :
     i \in {j \in DOMAIN F : lastOnly /\ MarkerEntry(F[j]) => LastMarker(F, j)}}

RoundTripHolds(lastOnly) ==
  pc = "routes" =>
    LET typed == Typed
    IN  \A mp \in ModelPaths(typed) :
          \A e \in SeqToSet(ModelAt(typed, mp)) :
            ReMerged(Get(ModelAt(modelsData, mp), e.k)) = CaseFolded(e.v, lastOnly)

\* C4 as stated: segregating and merging api back gives the original
\* properties with the markers case-folded, whatever the permission columns.
C4_Original == RoundTripHolds(FALSE)

\* C4 amended: the same, where of the permission columns that fold to one
\* key only the last, in column order, is reproduced.
C4_RoundTripLastWins == RoundTripHolds(TRUE)

\* A field with two markers and a marker written in upper case.
C4_Witness ==
  /\ pc = "routes"
  /\ LET typed == Typed IN
     \E mp \in ModelPaths(typed) :
       \E e \in SeqToSet(ModelAt(typed, mp)) :
         /\ Cardinality({i \in DOMAIN e.v : MarkerEntry(e.v[i])}) >= 2
         /\ \E i \in DOMAIN e.v : MarkerEntry(e.v[i]) /\ Lower(e.v[i].v.s) # e.v[i].v.s
         /\ ReMerged(Get(ModelAt(modelsData, mp), e.k)) # Entries(e.v)

----------------------------------------------------------------------------
(* C5, C6 *)

\* C5: after fillPartials no field key of any model starts with partials.,
\* whatever the partials are.
C5_NoPartialsKeyRemains ==
  pc = "replaceTypes" =>
    \A mp \in ModelPaths(modelsData) :
      \A key \in KeySet(ModelAt(modelsData, mp)) :
        ~(Len(key) >= 2 /\ key[1] = "partials")

IsPartialRef(key) == Len(key) >= 2 /\ key[1] = "partials"

PartialOf(key) == Get(partials, Tail(key))

\* The field keys the entry at i of model M defines, and their property maps.
DefinedKeys(M, i) ==
  IF IsPartialRef(M[i].k) THEN KeySet(PartialOf(M[i].k)) ELSE {M[i].k}

DefinedValue(M, i, key) ==
  IF IsPartialRef(M[i].k) THEN Get(PartialOf(M[i].k), key) ELSE M[i].v

\* C6 as stated: every reference is replaced by all the fields of its
\* partial and every other field keeps its key and its property map.
C6_Original ==
  pc = "replaceTypes" =>
    LET raw == Extracted.modelsData IN
    \A mp \in ModelPaths(raw) :
      LET M == ModelAt(raw, mp)
          R == ModelAt(modelsData, mp)
      IN  \A i \in DOMAIN M :
            IF IsPartialRef(M[i].k)
              THEN \A key \in DefinedKeys(M, i) : Has(R, key)
              ELSE Has(R, M[i].k) /\ Get(R, M[i].k) = M[i].v

\* C6 amended: the keys of the model are the keys its entries define, a
\* reference defining the fields of its partial; each key has the property
\* map of the last entry, in field order, that defines it.
C6_FillPartialsLastWins ==
  pc = "replaceTypes" =>
    LET raw == Extracted.modelsData IN
    \A mp \in ModelPaths(raw) :
      LET M == ModelAt(raw, mp)
          R == ModelAt(modelsData, mp)
      IN  /\ KeySet(R) = UNION {DefinedKeys(M, i) : i \in DOMAIN M}
          /\ \A i \in DOMAIN M :
               \A key \in DefinedKeys(M, i) :
                 (\A j \in DOMAIN M : j > i => key \notin DefinedKeys(M, j))
                   => Get(R, key) = DefinedValue(M, i, key)

\* A model with a field of its own followed by a reference to a partial
\* that defines a field of the same name.
C6_Witness ==
  /\ pc = "replaceTypes"
  /\ LET raw == Extracted.modelsData IN
     \E mp \in ModelPaths(raw) :
       LET M == ModelAt(raw, mp)
       IN  \E i, j \in DOMAIN M :
             /\ i < j
             /\ ~IsPartialRef(M[i].k)
             /\ IsPartialRef(M[j].k)
             /\ M[i].k \in DefinedKeys(M, j)
             /\ Get(ModelAt(modelsData, mp), M[i].k) # M[i].v

----------------------------------------------------------------------------
(* C7 *)

\* The Model cell in force at row i of a sheet: that of the last row at or
\* before i that has one.
ModelInForce(data, i) ==
  LET j == CHOOSE n \in 1..i :
             /\ Has(data[n], S("Model"))
             /\ \A m \in (n + 1)..i : ~Has(data[m], S("Model"))
  IN  Get(data[j], S("Model")).s

\* No later row of the sheet opens the row's model again or repeats its field.
RowSurvives(data, i) ==
  \A j \in DOMAIN data :
    j > i =>
      /\ ~(Has(data[j], S("Model")) /\ Get(data[j], S("Model")).s = ModelInForce(data, i))
      /\ ~(/\ ModelInForce(data, j) = ModelInForce(data, i)
           /\ Get(data[j], S("Field")) = Get(data[i], S("Field")))

\* The property map stored for row i of sheet sheetName.
StoredFor(sheetName, data, i) ==
  Get(Get(IF sheetName = S("partials") THEN partials ELSE Get(modelsData, sheetName),
          ModelInForce(data, i)),
      Get(data[i], S("Field")).s)

RowKeysStored(dropped) ==
  pc = "fillPartials" =>
    \A n \in DOMAIN workbook.Sheets :
      LET sheetName == workbook.Sheets[n].k
          data == workbook.Sheets[n].v
      IN  (data # <<>> /\ data[1][1].k = S("Model")) =>
            \A i \in DOMAIN data :
              RowSurvives(data, i) =>
                KeySet(StoredFor(sheetName, data, i)) = KeySet(data[i]) \ dropped

\* C7 as stated: the keys stored for a row are its columns less Model and
\* Field.
C7_Original == RowKeysStored({S("Model"), S("Field")})

\* C7 amended: the keys stored for a row are its columns less Model; the
\* Field column is kept as a property.
C7_RowKeysLessModel == RowKeysStored({S("Model")})

\* A stored row that had a Model cell and property columns.
C7_Witness ==
  /\ pc = "fillPartials"
  /\ \E n \in DOMAIN workbook.Sheets :
       LET sheetName == workbook.Sheets[n].k
           data == workbook.Sheets[n].v
       IN  /\ data # <<>> /\ data[1][1].k = S("Model")
           /\ sheetName # S("partials")
           /\ RowSurvives(data, 1)
           /\ Len(data[1]) > 2
           /\ Has(StoredFor(sheetName, data, 1), S("Field"))

----------------------------------------------------------------------------
(* Numbers *)

\* A JavaScript number that is an integer: its sign and its magnitude, the
\* magnitude as five digits of base 65536, most significant first. Zero is
\* not negative.
Num(neg, mag) == [neg |-> neg, mag |-> mag]

Number(n) == [t |-> "number", n |-> n]

Undefined == [t |-> "undefined"]

MagLess(x, y) ==
  \E i \in DOMAIN x : x[i] < y[i] /\ \A j \in DOMAIN x : j < i => x[j] = y[j]

\* a < b
NumLess(a, b) ==
  IF a.neg THEN (IF b.neg THEN MagLess(b.mag, a.mag) ELSE TRUE)
           ELSE (IF b.neg THEN FALSE ELSE MagLess(a.mag, b.mag))

\* a <= b, a >= b, a > b
NumLeq(a, b) == ~NumLess(b, a)
NumGeq(a, b) == ~NumLess(a, b)
NumGreater(a, b) == NumLess(b, a)

Zero == Num(FALSE, <<0, 0, 0, 0, 0>>)
MinusOne == Num(TRUE, <<0, 0, 0, 0, 1>>)
\* 4294967295 and 2147483647
MaxUint32 == Num(FALSE, <<0, 0, 0, 65535, 65535>>)
MaxInt32 == Num(FALSE, <<0, 0, 0, 32767, 65535>>)
\* The literal 18446744073709551615 is the double 2^64.
DefaultMaximum == Num(FALSE, <<1, 0, 0, 0, 0>>)

----------------------------------------------------------------------------
(* TypeResolver, second half: the refinement of one field *)

typeFromTypesOf(f) ==
  IF Has(f, S("typeFromTypes")) THEN Get(f, S("typeFromTypes")) ELSE Undefined

\* createFieldVariables: the type it returns.
fieldType(f) ==
  LET typeFromTypes == typeFromTypesOf(f)
  IN  IF typeFromTypes.t = "undefined"
        THEN IF Has(f, S("Type")) THEN Get(f, S("Type")) ELSE Undefined
        ELSE IF typeFromTypes.t = "object"
               THEN IF Has(typeFromTypes.o, S("type"))
                      THEN Get(typeFromTypes.o, S("type")) ELSE Undefined
               ELSE typeFromTypes

\* createFieldVariables: the field it returns (field.length of a structured
\* registry entry).
createFieldVariables(f) ==
  LET typeFromTypes == typeFromTypesOf(f)
  IN  IF typeFromTypes.t = "object" /\ Has(typeFromTypes.o, S("length"))
        THEN Put(f, S("length"), Get(typeFromTypes.o, S("length")))
        ELSE f

importStringsMaps ==
  << [k |-> Str(<<"uuid", "UUID">>), v |-> <<"uuid \"github", "com/google/uuid\"">>],
     [k |-> Str(<<"time", "Time">>), v |-> S("\"time\"")] >>

\* addToImports(type, imports) and addToImports(type, imports, 'local')
addToImports(type, imps, importStrType) ==
  IF importStrType = ""
    THEN IF ~Has(importStringsMaps, type) THEN imps
         ELSE IF Get(importStringsMaps, type) \in SeqToSet(imps) THEN imps
         ELSE Append(imps, Get(importStringsMaps, type))
    ELSE IF type \in SeqToSet(imps) THEN imps ELSE Append(imps, type)

setDefaultFieldType(f) ==
  LET typeFromTypes == typeFromTypesOf(f)
  IN  IF typeFromTypes.t = "object"
        THEN LET f1 == IF Has(typeFromTypes.o, S("type"))
                         THEN Put(f, S("type"), Get(typeFromTypes.o, S("type")))
                         ELSE f
             IN  IF Has(typeFromTypes.o, S("length"))
                   THEN Put(f1, S("Length"), Get(typeFromTypes.o, S("length")))
                   ELSE f1
        ELSE Put(f, S("type"), typeFromTypes)

\* setPrimarykey(primary, fieldKey, field, imports): the assignment to its
\* parameter primary is lost; what is left is the import of the else branch.
\* Before it, the mutant without that import.
setPrimarykeyNoImport(f, imps) == imps

setPrimarykey(f, imps) ==
  IF Has(f, S("Primary")) /\ Truthy(Get(f, S("Primary")))
    THEN imps
    ELSE addToImports(Str(<<"uuid", "UUID">>), imps, "")

\* `'${DefaultValue}'` for a string
quoted(v) ==
  Str([i \in DOMAIN v.s |->
         (IF i = 1 THEN "'" ELSE "") \o v.s[i] \o (IF i = Len(v.s) THEN "'" ELSE "")])

setDefaultValue(f) ==
  IF Has(f, S("DefaultValue"))
    THEN IF typeFromTypesOf(f) = Text("string")
           THEN Put(f, S("DefaultValue"), quoted(Get(f, S("DefaultValue"))))
           ELSE f
    ELSE f

setFieldLength(f) ==
  LET f1 == IF Has(f, S("MaximumLength"))
              THEN Put(f, S("Length"), Get(f, S("MaximumLength"))) ELSE f
  IN  IF Has(f1, S("length")) THEN Put(f1, S("Length"), Get(f1, S("length")))
                              ELSE f1

\* The mutant of setTimeType that takes the pointer form whatever NotNull is.
setTimeTypeAlwaysPointer(f) ==
  IF typeFromTypesOf(f) = Str(<<"time", "Time">>)
    THEN LET f1 == Put(f, S("type"), Str(<<"*time", "Time">>))
         IN  IF Has(f1, S("AutoCreate")) /\ Truthy(Get(f1, S("AutoCreate")))
               THEN Put(f1, S("misc"), Text("autoCreateTime")) ELSE f1
    ELSE f

setTimeType(f) ==
  IF typeFromTypesOf(f) = Str(<<"time", "Time">>)
    THEN LET f1 == IF ~(Has(f, S("NotNull")) /\ Truthy(Get(f, S("NotNull"))))
                     THEN Put(f, S("type"), Str(<<"*time", "Time">>)) ELSE f
         IN  IF Has(f1, S("AutoCreate")) /\ Truthy(Get(f1, S("AutoCreate")))
               THEN Put(f1, S("misc"), Text("autoCreateTime")) ELSE f1
    ELSE f

\* The mutant of intWidth that takes 4294967295 itself for too large.
intWidthStrict(Minimum, Maximum) ==
  IF NumGeq(Minimum, Zero) /\ NumLess(Maximum, MaxUint32) THEN "uint32"
  ELSE IF NumGeq(Minimum, Zero) /\ NumGeq(Maximum, MaxUint32) THEN "uint64"
  ELSE IF NumLess(Minimum, Zero) /\ NumLeq(Maximum, MaxInt32) THEN "int32"
  ELSE "int64"

\* The if-else chain of setIntType. One of its four conditions holds of any
\* two integers; were none to hold, field.type would stay the int that
\* setDefaultFieldType gave it.
intWidth(Minimum, Maximum) ==
  IF NumGeq(Minimum, Zero) /\ NumLeq(Maximum, MaxUint32) THEN "uint32"
  ELSE IF NumGeq(Minimum, Zero) /\ NumGreater(Maximum, MaxUint32) THEN "uint64"
  ELSE IF NumLess(Minimum, Zero) /\ NumLeq(Maximum, MaxInt32) THEN "int32"
  ELSE IF NumLess(Minimum, Zero) /\ NumGreater(Maximum, MaxInt32) THEN "int64"
  ELSE "int"

\* The mutant of setIntType whose missing Minimum is 0.
setIntTypeFromZero(f) ==
  IF typeFromTypesOf(f) = Text("int")
    THEN LET hasMinimum == Has(f, S("Minimum"))
             hasMaximum == Has(f, S("Maximum"))
             Maximum == IF hasMaximum THEN Get(f, S("Maximum")).n ELSE DefaultMaximum
             Minimum == IF hasMinimum THEN Get(f, S("Minimum")).n ELSE Zero
         IN  IF ~hasMinimum /\ ~hasMaximum
               THEN Put(f, S("type"), Text("int64"))
               ELSE Put(f, S("type"), Text(intWidth(Minimum, Maximum)))
    ELSE f

setIntType(f) ==
  IF typeFromTypesOf(f) = Text("int")
    THEN LET hasMinimum == Has(f, S("Minimum"))
             hasMaximum == Has(f, S("Maximum"))
             Maximum == IF hasMaximum THEN Get(f, S("Maximum")).n ELSE DefaultMaximum
             Minimum == IF hasMinimum THEN Get(f, S("Minimum")).n ELSE MinusOne
         IN  IF ~hasMinimum /\ ~hasMaximum
               THEN Put(f, S("type"), Text("int64"))
               ELSE Put(f, S("type"), Text(intWidth(Minimum, Maximum)))
    ELSE f

\* Math.abs(Maximum) <= 3.402823466e385: the literal is Infinity.
setFloatType(f) ==
  IF typeFromTypesOf(f) = Text("float")
    THEN IF ~Has(f, S("Maximum")) THEN Put(f, S("type"), Text("float64"))
                                  ELSE Put(f, S("type"), Text("float32"))
    ELSE f

\* The body of the second loop over the fields of a model.
resolveField(f) ==
  setFloatType(setIntType(setTimeType(setFieldLength(setDefaultValue(
    setDefaultFieldType(createFieldVariables(f)))))))

resolveImports(f, imps) == setPrimarykey(f, addToImports(fieldType(f), imps, ""))

\* The bounds a sheet may declare for an integer field.
IntValues ==
  { Num(TRUE,  <<0, 32768, 0, 0, 0>>),          \* -2^63
    Num(TRUE,  <<0, 0, 0, 45776, 24064>>),      \* -3000000000
    Num(TRUE,  <<0, 0, 0, 32768, 0>>),          \* -2^31
    Num(TRUE,  <<0, 0, 0, 0, 5>>),              \* -5
    MinusOne,
    Zero,
    Num(FALSE, <<0, 0, 0, 0, 100>>),            \* 100
    MaxInt32,
    Num(FALSE, <<0, 0, 0, 32768, 0>>),          \* 2^31
    MaxUint32,
    Num(FALSE, <<0, 0, 1, 0, 0>>),              \* 4294967296
    Num(FALSE, <<0, 0, 2, 21515, 58367>>),      \* 9999999999
    Num(FALSE, <<0, 32768, 0, 0, 0>>) }         \* 2^63

Optional(key, values) == {<<>>} \cup {<<P(key, v)>> : v \in values}

FieldInputs ==
  {<<P("typeFromTypes", Text("int"))>> \o lo \o hi :
     lo \in Optional("Minimum", {Number(n) : n \in IntValues}),
     hi \in Optional("Maximum", {Number(n) : n \in IntValues})}
  \cup
  {<<P("typeFromTypes", Str(<<"time", "Time">>))>> \o nn \o ac :
     nn \in Optional("NotNull", {Bool(TRUE), Bool(FALSE)}),
     ac \in Optional("AutoCreate", {Bool(TRUE), Bool(FALSE)})}
  \cup
  {<<P("typeFromTypes", Text("float"))>> \o hi :
     hi \in Optional("Maximum", {Number(Num(FALSE, <<0, 0, 0, 0, 100>>))})}
  \cup
  {<<P("typeFromTypes", Text("string"))>> \o dv \o ml :
     dv \in Optional("DefaultValue", {Text("none")}),
     ml \in Optional("MaximumLength", {Number(Num(FALSE, <<0, 0, 0, 0, 100>>))})}
  \cup
  { <<P("typeFromTypes", Str(<<"uuid", "UUID">>)), P("Primary", Bool(TRUE))>>,
    <<P("typeFromTypes", Text("string")), P("AutoCreate", Bool(TRUE))>>,
    <<P("Type", Text("custom"))>>,
    <<>> }

InitField ==
  /\ pc = "field"
  /\ pmField \in FieldInputs
  /\ pmImports = <<>>
  /\ pmCursor = <<>>
  /\ pmAllModelStrs = <<>>
  /\ pmHierarchy = <<>>
  /\ pmRendered = <<>>
  /\ pmDb = <<>>
  /\ pmSorted = <<>>
  /\ pmFlow = NoFlow
  /\ workbook = <<>>
  /\ modelsData = <<>>
  /\ partials = <<>>
  /\ routesData = <<>>
  /\ modelsFile = NotWritten
  /\ routesFile = NotWritten
  /\ promise = "pending"

ResolveField ==
  /\ pc = "field"
  /\ pmField' = resolveField(pmField)
  /\ pmImports' = resolveImports(pmField, pmImports)
  /\ pc' = "resolved"
  /\ UNCHANGED <<modelsData, compileVars, pmCursor, pmAllModelStrs, pmHierarchy,
                 pmRendered, emitVars>>

NextField == ResolveField

SpecField == InitField /\ [][NextField]_vars

----------------------------------------------------------------------------
(* processModels: relationships, the loop over the models, db.go *)

MaxFields == 4

\* Concatenation of two strings.
Cat(a, b) ==
  IF a = <<>> THEN b
  ELSE IF b = <<>> THEN a
  ELSE SubSeq(a, 1, Len(a) - 1) \o <<a[Len(a)] \o Head(b)>> \o Tail(b)

\* _.camelCase on a name without separators, over the names the models use.
camelCase(x) ==
  CASE x = "User" -> "user"
    [] x = "Post" -> "post"
    [] OTHER      -> x

\* The module line of go.mod.
readModulePath == <<"example", "com/app">>

getLocalModelPackageStr(packageName) ==
  Cat(S(packageName \o " \""),
      Cat(readModulePath, S("/src/models/" \o LowerSeg(packageName) \o "\"")))

\* fieldKey.match(/\./)
isDotted(fieldKey) == Len(fieldKey) >= 2

\* createRelationShips: what it leaves in fields and in imports.
createRelationShips(fields, fieldKey, packageCamelCase, imps) ==
  IF isDotted(fieldKey)
    THEN LET field == Get(fields, fieldKey)
             relatedModelPackage == fieldKey[1]
             relatedModel == fieldKey[2]
             relatedFieldName == fieldKey[2] \o "Id"
             local == relatedModelPackage # packageCamelCase
             relatedModelType == IF local THEN fieldKey ELSE S(relatedModel)
             related == << P("typeFromTypes", Str(relatedModelType)),
                           P("misc", Text("constraint:OnDelete:CASCADE;")) >>
             withModel == Put(fields, S(relatedModel), related)
             withId == Put(withModel, S(relatedFieldName), field)
         IN  [fields  |-> Put(withId, S(relatedFieldName),
                              Put(Get(withId, S(relatedFieldName)),
                                  S("typeFromTypes"), Str(<<"uuid", "UUID">>))),
              imports |-> IF local
                            THEN addToImports(getLocalModelPackageStr(relatedModelPackage),
                                              imps, "local")
                            ELSE imps]
    ELSE [fields |-> fields, imports |-> imps]

\* The mutant of updateField that leaves the dotted key in fields.
updateFieldKeepingKey(fields, field, fieldKey, parentModel) ==
  IF ~isDotted(fieldKey)
    THEN [fields |-> Put(fields, fieldKey, field), parentModel |-> parentModel]
    ELSE [fields |-> fields, parentModel |-> [value |-> Str(fieldKey)]]

\* The mutant of updateField that assigns the field under a dotted key too.
updateFieldRetaining(fields, field, fieldKey, parentModel) ==
  IF ~isDotted(fieldKey)
    THEN [fields |-> Put(fields, fieldKey, field), parentModel |-> parentModel]
    ELSE [fields |-> Put(fields, fieldKey, field),
          parentModel |-> [value |-> Str(fieldKey)]]

updateField(fields, field, fieldKey, parentModel) ==
  IF ~isDotted(fieldKey)
    THEN [fields |-> Put(fields, fieldKey, field), parentModel |-> parentModel]
    ELSE [fields |-> Del(fields, fieldKey), parentModel |-> [value |-> Str(fieldKey)]]

\* for (let fieldKey in fields), first loop: the keys are those fields had
\* when the loop began; a key deleted before its turn is not visited.
RECURSIVE firstLoop(_, _, _, _)
firstLoop(st, keys, i, packageCamelCase) ==
  IF i > Len(keys) THEN st
  ELSE IF ~Has(st.fields, keys[i]) THEN firstLoop(st, keys, i + 1, packageCamelCase)
  ELSE LET fieldKey == keys[i]
           field == createFieldVariables(Get(st.fields, fieldKey))
           rel == createRelationShips(Put(st.fields, fieldKey, field), fieldKey,
                                      packageCamelCase, st.imports)
           upd == updateField(rel.fields, field, fieldKey, st.parentModel)
       IN  firstLoop([fields |-> upd.fields, imports |-> rel.imports,
                      parentModel |-> upd.parentModel],
                     keys, i + 1, packageCamelCase)

\* for (let fieldKey in fields), second loop.
RECURSIVE secondLoop(_, _, _)
secondLoop(st, keys, i) ==
  IF i > Len(keys) THEN st
  ELSE IF ~Has(st.fields, keys[i]) THEN secondLoop(st, keys, i + 1)
  ELSE LET fieldKey == keys[i]
           before == Get(st.fields, fieldKey)
           field == resolveField(before)
           upd == updateField(Put(st.fields, fieldKey, field), field, fieldKey,
                              st.parentModel)
       IN  secondLoop([fields |-> upd.fields,
                       imports |-> resolveImports(before, st.imports),
                       parentModel |-> upd.parentModel],
                      keys, i + 1)

createPackageVariables(data, package_) ==
  [packageCamelCase |-> camelCase(package_[1]), packageData |-> Get(data, package_)]

createPackageDataVariables(model, packageData) ==
  [imports |-> <<>>, modelCamelCase |-> camelCase(model[1]),
   fields |-> Get(packageData, model), primary |-> Bool(FALSE)]

\* The body of the loop over the models of a package, up to the hierarchy.
processModel(data, package_, model) ==
  LET pv == createPackageVariables(data, package_)
      dv == createPackageDataVariables(model, pv.packageData)
      one == firstLoop([fields |-> dv.fields, imports |-> dv.imports,
                        parentModel |-> [value |-> Bool(FALSE)]],
                       Keys(dv.fields), 1, pv.packageCamelCase)
      two == secondLoop(one, Keys(one.fields), 1)
  IN  [package |-> pv.packageCamelCase, modelCamelCase |-> dv.modelCamelCase,
       modelTitleCase |-> model[1], fields |-> two.fields,
       Primary |-> dv.primary, imports |-> two.imports,
       parentModel |-> two.parentModel]

\* allModelsWithHierarchyData[parentModel.value] gets model_
recordHierarchy(h, parentModel, model_) ==
  IF Truthy(parentModel.value)
    THEN IF ~Has(h, parentModel.value.s)
           THEN Put(h, parentModel.value.s, <<model_>>)
           ELSE Put(h, parentModel.value.s, Append(Get(h, parentModel.value.s), model_))
    ELSE h

\* The names that a segment ending in Models may begin with.
Stems(data) == {camelCase(k[1]) : k \in KeySet(data)}

\* model.replace(/Models\./, '.')
replaceModelsDot(model, stems) ==
  LET hits == {i \in 1..(Len(model) - 1) : \E p \in stems : p \o "Models" = model[i]}
  IN  IF hits = {} THEN model
      ELSE LET i == CHOOSE h \in hits : \A g \in hits : h <= g
           IN  [model EXCEPT ![i] = CHOOSE p \in stems : p \o "Models" = model[i]]

\* parent.replace(/\./, `Models.`)
replaceDotModels(parent) ==
  IF Len(parent) >= 2 THEN [parent EXCEPT ![1] = @ \o "Models"] ELSE parent

\* The entries of allModelsWithHierarchyData whose list includes the model.
parentsOf(model, h, stems) ==
  LET name == replaceModelsDot(model, stems)
  IN  {i \in DOMAIN h : \E j \in DOMAIN h[i].v : h[i].v[j] = name}

\* One pass of the loop that places a child after its only parent.
RECURSIVE placeChildren(_, _, _, _, _)
placeChildren(sortedModels, allModelStrs, i, h, stems) ==
  IF i > Len(allModelStrs) THEN sortedModels
  ELSE LET model == allModelStrs[i]
           parents == parentsOf(model, h, stems)
           placed ==
             IF Cardinality(parents) = 1
               THEN LET parent == h[CHOOSE j \in parents : TRUE].k
                    IN  IF /\ replaceDotModels(parent) \in SeqToSet(sortedModels)
                           /\ model \notin SeqToSet(sortedModels)
                          THEN Append(sortedModels, model)
                          ELSE sortedModels
               ELSE sortedModels
       IN  placeChildren(placed, allModelStrs, i + 1, h, stems)

\* The mutant of placeRounds with three passes, i <= 2.
RECURSIVE placeRoundsThrice(_, _, _, _, _)
placeRoundsThrice(sortedModels, allModelStrs, i, h, stems) ==
  IF i > 2 THEN sortedModels
  ELSE placeRoundsThrice(placeChildren(sortedModels, allModelStrs, 1, h, stems),
                         allModelStrs, i + 1, h, stems)

\* for (let i = 0; i <= 5; i++)
RECURSIVE placeRounds(_, _, _, _, _)
placeRounds(sortedModels, allModelStrs, i, h, stems) ==
  IF i > 5 THEN sortedModels
  ELSE placeRounds(placeChildren(sortedModels, allModelStrs, 1, h, stems),
                   allModelStrs, i + 1, h, stems)

\* The mutant of pushRest that pushes a model whether or not it is placed.
pushRestUnchecked(sortedModels, allModelStrs, i) ==
  sortedModels \o SubSeq(allModelStrs, i, Len(allModelStrs))

RECURSIVE pushRest(_, _, _)
pushRest(sortedModels, allModelStrs, i) ==
  IF i > Len(allModelStrs) THEN sortedModels
  ELSE pushRest(IF allModelStrs[i] \in SeqToSet(sortedModels)
                  THEN sortedModels ELSE Append(sortedModels, allModelStrs[i]),
                allModelStrs, i + 1)

\* The mutant of sortModelsByHierarchy without its first pass.
sortWithoutParentsPass(allModelStrs, h, stems) ==
  pushRest(placeRounds(<<>>, allModelStrs, 0, h, stems), allModelStrs, 1)

sortModelsByHierarchy(allModelStrs, h, stems) ==
  LET onlyParents == SelectSeq(allModelStrs, LAMBDA m : parentsOf(m, h, stems) = {})
  IN  pushRest(placeRounds(onlyParents, allModelStrs, 0, h, stems), allModelStrs, 1)

Reverse(s) == [i \in DOMAIN s |-> s[Len(s) + 1 - i]]

RECURSIVE packageImports(_, _, _)
packageImports(acc, keys, i) ==
  IF i > Len(keys) THEN acc
  ELSE LET package_ == keys[i][1]
           modelStr == Cat(S(package_ \o "Models \""),
                           Cat(readModulePath,
                               S("/src/models/" \o LowerSeg(package_) \o "\"")))
       IN  packageImports(IF modelStr \in SeqToSet(acc) THEN acc
                          ELSE Append(acc, modelStr), keys, i + 1)

listModelPackages(data) ==
  <<Cat(S("\""), Cat(readModulePath, S("/config\"")))>>
    \o packageImports(<<>>, Keys(data), 1)

\* The keys a field of models.json may have, and its properties.
FieldKeys ==
  { S("id"), S("User"), S("UserId"),
    <<"users", "User">>, <<"blog", "User">>, <<"blog", "Post">> }

\* The properties models.json has for a field of each key.
FieldProps(key) ==
  IF key = S("id")
    THEN <<P("typeFromTypes", Str(<<"uuid", "UUID">>)), P("Primary", Bool(TRUE))>>
    ELSE <<P("typeFromTypes", Text("string")),
           P("api", Obj(<<P("create", Text("required"))>>))>>

RECURSIVE FieldsOfLen(_)
FieldsOfLen(n) ==
  IF n = 0 THEN {<<>>}
  ELSE UNION { {Append(fs, [k |-> key, v |-> FieldProps(key)]) :
                  key \in FieldKeys \ KeySet(fs)} :
               fs \in FieldsOfLen(n - 1) }

UserModels == UNION {FieldsOfLen(n) : n \in 1..MaxFields}

PostModels ==
  { <<[k |-> S("id"), v |-> <<P("typeFromTypes", Str(<<"uuid", "UUID">>)), P("Primary", Bool(TRUE))>>]>>,
    <<[k |-> S("title"), v |-> <<P("typeFromTypes", Text("string"))>>],
      [k |-> <<"users", "User">>, v |-> <<P("typeFromTypes", Text("string"))>>]>>,
    <<[k |-> <<"blog", "Comment">>, v |-> <<>>],
      [k |-> <<"users", "User">>, v |-> <<>>]>>,
    <<[k |-> S("id"), v |-> <<P("typeFromTypes", Text("int")), P("Primary", Bool(TRUE))>>]>> }

\* models.json: the model User of the package users, Post of blog.
ModelsJson(user, post) ==
  << [k |-> S("users"), v |-> <<[k |-> S("User"), v |-> user]>>],
     [k |-> S("blog"),  v |-> <<[k |-> S("Post"), v |-> post]>>] >>

\* Object.keys(modelsData) and, of each, Object.keys(packageData), in order.
RECURSIVE modelsInOrder(_, _)
modelsInOrder(data, i) ==
  IF i > Len(data) THEN <<>>
  ELSE [j \in DOMAIN data[i].v |-> <<data[i].k, data[i].v[j].k>>]
         \o modelsInOrder(data, i + 1)

InitModels ==
  /\ pc = "models"
  /\ \E user \in UserModels, post \in PostModels :
       /\ modelsData = ModelsJson(user, post)
       /\ modelsFile = Written(ModelsJson(user, post))
  /\ pmCursor = modelsInOrder(modelsData, 1)
  /\ pmField = <<>>
  /\ pmImports = <<>>
  /\ pmAllModelStrs = <<>>
  /\ pmHierarchy = <<>>
  /\ pmRendered = <<>>
  /\ pmDb = <<>>
  /\ pmSorted = <<>>
  /\ pmFlow = NoFlow
  /\ workbook = <<>>
  /\ partials = <<>>
  /\ routesData = <<>>
  /\ routesFile = NotWritten
  /\ promise = "pending"

\* One turn of the loop over the models: the object that require() caches is
\* changed where it stands, the file is not.
ProcessModel ==
  /\ pc = "models"
  /\ pmCursor # <<>>
  /\ LET package_ == Head(pmCursor)[1]
         model == Head(pmCursor)[2]
         r == processModel(modelsData, package_, model)
         model_ == <<r.package, model[1]>>
     IN  /\ modelsData' = Put(modelsData, package_,
                              Put(Get(modelsData, package_), model, r.fields))
         /\ pmHierarchy' = recordHierarchy(pmHierarchy, r.parentModel, model_)
         /\ pmAllModelStrs' = Append(pmAllModelStrs, <<r.package \o "Models", model[1]>>)
         /\ pmRendered' = Append(pmRendered,
                                 [package |-> r.package,
                                  modelCamelCase |-> r.modelCamelCase,
                                  modelTitleCase |-> r.modelTitleCase,
                                  fields |-> r.fields,
                                  Primary |-> r.Primary,
                                  imports |-> r.imports])
         /\ pmImports' = r.imports
  /\ pmCursor' = Tail(pmCursor)
  /\ UNCHANGED <<pc, pmField, compileVars, emitVars>>

\* The db.go block: the template is given allModelStrs, reversed.
EmitDb ==
  /\ pc = "models"
  /\ pmCursor = <<>>
  /\ pmAllModelStrs' = Reverse(pmAllModelStrs)
  /\ pmSorted' = sortModelsByHierarchy(Reverse(pmAllModelStrs), pmHierarchy,
                                       Stems(modelsData))
  /\ pmDb' = [imports |-> listModelPackages(modelsData),
              allModelStrs |-> Reverse(pmAllModelStrs)]
  /\ pc' = "emitted"
  /\ UNCHANGED <<modelsData, compileVars, pmField, pmImports, pmCursor,
                 pmHierarchy, pmRendered>>

NextModels ==
  \/ ProcessModel
  \/ EmitDb

SpecModels == InitModels /\ [][NextModels]_vars

----------------------------------------------------------------------------
(* sortModelsByHierarchy on lists and tables of its own *)

MaxChildren == 2

\* Qualified model names, `${packageCamelCase}.${model}`.
SortNames == {<<"users", "User">>, <<"blog", "Post">>, <<"blog", "Comment">>}

\* `${packageCamelCase}Models.${model}`
ModelStr(name) == <<name[1] \o "Models", name[2]>>

\* allModelStrs: distinct models in any order.
SortLists ==
  {l \in UNION {[1..n -> SortNames] : n \in 1..Cardinality(SortNames)} :
     \A i, j \in DOMAIN l : l[i] = l[j] => i = j}

\* The lists of children an entry of the table may have, none included.
ChildLists ==
  {l \in UNION {[1..n -> SortNames] : n \in 0..MaxChildren} :
     \A i, j \in DOMAIN l : i < j => l[i] # l[j]}

\* allModelsWithHierarchyData: any child list under any parent key, so cyclic,
\* self-referencing and multi-parent tables too.
HierarchyTables ==
  {SelectSeq(<< [k |-> <<"users", "User">>, v |-> a],
                [k |-> <<"blog", "Post">>, v |-> b],
                [k |-> <<"blog", "Comment">>, v |-> c] >>,
             LAMBDA e : e.v # <<>>) :
     a \in ChildLists, b \in ChildLists, c \in ChildLists}

InitSort ==
  /\ pc = "sort"
  /\ \E l \in SortLists : pmAllModelStrs = [i \in DOMAIN l |-> ModelStr(l[i])]
  /\ pmHierarchy \in HierarchyTables
  /\ pmSorted = <<>>
  /\ pmFlow = NoFlow
  /\ pmField = <<>>
  /\ pmImports = <<>>
  /\ pmCursor = <<>>
  /\ pmRendered = <<>>
  /\ pmDb = <<>>
  /\ workbook = <<>>
  /\ modelsData = <<>>
  /\ partials = <<>>
  /\ routesData = <<>>
  /\ modelsFile = NotWritten
  /\ routesFile = NotWritten
  /\ promise = "pending"

Sort ==
  /\ pc = "sort"
  /\ pmSorted' = sortModelsByHierarchy(pmAllModelStrs, pmHierarchy,
                                       {n[1] : n \in SortNames})
  /\ pc' = "sorted"
  /\ UNCHANGED <<modelsData, compileVars, pmField, pmImports, pmCursor,
                 pmAllModelStrs, pmHierarchy, pmRendered, pmDb>>

NextSort == Sort

SpecSort == InitSort /\ [][NextSort]_vars

----------------------------------------------------------------------------
(* sortModelsByHierarchy on deep hierarchies *)

MaxDepth == 6

\* The models of a chain, the parent of each being the one before it.
ChainModels == <<"Account", "Team", "Project", "Board", "Card", "Comment",
                 "Reaction", "Report", "Audit">>

ChainName(i) == <<"users", ChainModels[i]>>

\* A chain of depth d: d entries of one child each.
ChainTable(d) == [i \in 1..d |-> [k |-> ChainName(i), v |-> <<ChainName(i + 1)>>]]

RECURSIVE Perms(_)
Perms(set) ==
  IF set = {} THEN {<<>>}
  ELSE UNION { {<<x>> \o p : p \in Perms(set \ {x})} : x \in set }

\* Every order of the models of a chain of every depth up to MaxDepth.
InitDeep ==
  /\ pc = "sort"
  /\ \E d \in 1..MaxDepth :
       /\ pmHierarchy = ChainTable(d)
       /\ \E l \in Perms(1..(d + 1)) :
            pmAllModelStrs = [i \in DOMAIN l |-> ModelStr(ChainName(l[i]))]
  /\ pmSorted = <<>>
  /\ pmFlow = NoFlow
  /\ pmField = <<>>
  /\ pmImports = <<>>
  /\ pmCursor = <<>>
  /\ pmRendered = <<>>
  /\ pmDb = <<>>
  /\ workbook = <<>>
  /\ modelsData = <<>>
  /\ partials = <<>>
  /\ routesData = <<>>
  /\ modelsFile = NotWritten
  /\ routesFile = NotWritten
  /\ promise = "pending"

\* The lists and tables of SpecSort and the chains.
SpecDeep == (InitSort \/ InitDeep) /\ [][NextSort]_vars

----------------------------------------------------------------------------
(* downloadAndUnzipFromGithub(name, 'create'): the three phases *)

\* A file of the data directory of the new project: the boilerplate may or may
\* not ship one ("stale"); "fresh" is a file that this run wrote whole and
\* "truncated" one that it began and did not finish.
ShippedFiles == {"missing", "stale"}

\* process.env.GOOGLE_SHEET_ID after .env.example was copied to .env.
SheetIds == {"set", "unset"}

\* The flow with one field replaced.
With(flow, field, value) == [flow EXCEPT ![field] = value]

\* A phase and how its call ended: "rejected" and "resolved" are what
\* await to(...) receives, "unsettled" is a promise that never settles.
Ended(flow, phase, how) ==
  With(flow, "ran", Append(flow.ran, [phase |-> phase, how |-> how]))

\* The state at webapp.ts:1079, before the first phase is called.
InitCreate ==
  /\ pc = "checkSheetId"
  /\ \E id \in SheetIds, sheet \in ShippedFiles, models \in ShippedFiles,
        routes \in ShippedFiles :
       pmFlow = [sheetId |-> id, sheet |-> sheet, models |-> models,
                 routes |-> routes, fetch |-> "none", extraction |-> "none",
                 ran |-> <<>>]
  /\ pmSorted = <<>>
  /\ pmField = <<>>
  /\ pmImports = <<>>
  /\ pmCursor = <<>>
  /\ pmAllModelStrs = <<>>
  /\ pmHierarchy = <<>>
  /\ pmRendered = <<>>
  /\ pmDb = <<>>
  /\ workbook = <<>>
  /\ modelsData = <<>>
  /\ partials = <<>>
  /\ routesData = <<>>
  /\ modelsFile = NotWritten
  /\ routesFile = NotWritten
  /\ promise = "pending"

\* What the phases of a create do not touch.
idleVars == <<workbook, modelsData, partials, routesData, modelsFile,
              routesFile, promise, pmField, pmImports, pmCursor,
              pmAllModelStrs, pmHierarchy, pmRendered, pmDb, pmSorted>>

\* The executor of downloadFromDriveAndConvertToJson threw at an await: the
\* promise it was to settle stays pending, and the await of the create on it
\* (1079) never returns.
Unsettled(flow) ==
  /\ pmFlow' = Ended(flow, "downloadFromDriveAndConvertToJson", "unsettled")
  /\ pc' = "unsettled"

\* downloadFile: checkSheetId() stands before the try, so its throw rejects
\* downloadFile.
CheckSheetId ==
  /\ pc = "checkSheetId"
  /\ IF pmFlow.sheetId = "unset"
       THEN Unsettled(pmFlow)
       ELSE pc' = "axios" /\ UNCHANGED pmFlow
  /\ UNCHANGED idleVars

\* downloadFile: await axios(...). A failed request is caught and logged
\* (64-66) and downloadFile resolves; a response is piped to the writer.
Axios ==
  /\ pc = "axios"
  /\ \E ok \in BOOLEAN :
       IF ok
         THEN pmFlow' = With(pmFlow, "fetch", "ok") /\ pc' = "writer"
         ELSE pmFlow' = With(pmFlow, "fetch", "failed") /\ pc' = "xlsxToJSON"
  /\ UNCHANGED idleVars

\* downloadFile: the promise over the writer. 'finish' resolves it; 'error'
\* rejects it, with the file as it was (the open failed) or cut short.
Writer ==
  /\ pc = "writer"
  /\ \/ /\ pmFlow' = With(pmFlow, "sheet", "fresh")
        /\ pc' = "xlsxToJSON"
     \/ \E left \in {pmFlow.sheet, "truncated"} :
          Unsettled(With(pmFlow, "sheet", left))
  /\ UNCHANGED idleVars

\* How a run of xlsxToJSON over a readable file ends: a throw in its executor,
\* both files written, the second write failed, or the first write failed
\* (the catch of 315 logs and resolve(true) follows).
Extractions == {"threw", "written", "modelsOnly", "notWritten"}

\* The files after an extraction.
AfterExtraction(flow, how) ==
  LET f1 == With(flow, "extraction", how)
      f2 == IF how \in {"written", "modelsOnly"}
              THEN With(f1, "models", "fresh") ELSE f1
  IN  IF how = "written" THEN With(f2, "routes", "fresh") ELSE f2

\* await xlsxToJSON() (79) and resolve(true) (80). XLSX.readFile throws on a
\* missing file.
AwaitXlsxToJSON ==
  /\ pc = "xlsxToJSON"
  /\ \E how \in Extractions :
       /\ pmFlow.sheet = "missing" => how = "threw"
       /\ IF how = "threw"
            THEN Unsettled(AfterExtraction(pmFlow, how))
            ELSE /\ pmFlow' = Ended(AfterExtraction(pmFlow, how),
                                    "downloadFromDriveAndConvertToJson",
                                    "resolved")
                 /\ pc' = "processModels"
  /\ UNCHANGED idleVars

\* await to(processModels()) (1080): readModelsData requires data/models.json,
\* and a throw anywhere in the body rejects the promise; to(...) hands the
\* rejection back as a value.
AwaitProcessModels ==
  /\ pc = "processModels"
  /\ \E how \in {"resolved", "rejected"} :
       /\ pmFlow.models = "missing" => how = "rejected"
       /\ pmFlow' = Ended(pmFlow, "processModels", how)
  /\ pc' = "processRoutes"
  /\ UNCHANGED idleVars

\* await to(processRoutes()) (1081): readModelsData('routesFromModels.json').
AwaitProcessRoutes ==
  /\ pc = "processRoutes"
  /\ \E how \in {"resolved", "rejected"} :
       /\ pmFlow.routes = "missing" => how = "rejected"
       /\ pmFlow' = Ended(pmFlow, "processRoutes", how)
  /\ pc' = "created"
  /\ UNCHANGED idleVars

NextCreate ==
  \/ CheckSheetId
  \/ Axios
  \/ Writer
  \/ AwaitXlsxToJSON
  \/ AwaitProcessModels
  \/ AwaitProcessRoutes

SpecCreate == InitCreate /\ [][NextCreate]_vars

----------------------------------------------------------------------------
(* C8, C9 *)

IsIntField(f) == Has(f, S("typeFromTypes")) /\ Get(f, S("typeFromTypes")) = Text("int")

TypeIs(f, name) == Has(f, S("type")) /\ Get(f, S("type")) = Text(name)

BothBounds(f) == Has(f, S("Minimum")) /\ Has(f, S("Maximum"))

NoBounds(f) == ~Has(f, S("Minimum")) /\ ~Has(f, S("Maximum"))

\* C8: with both bounds given the width is that of the table (Minimum >= 0
\* and Maximum <= 2^32-1: uint32; Minimum >= 0 and Maximum > 2^32-1: uint64;
\* Minimum < 0 and Maximum <= 2^31-1: int32; Minimum < 0 and Maximum >
\* 2^31-1: int64); with both absent it is int64.
C8_IntegerWidthTable ==
  (pc = "resolved" /\ IsIntField(pmField)) =>
    /\ NoBounds(pmField) => TypeIs(pmField, "int64")
    /\ BothBounds(pmField) =>
         LET lo == Get(pmField, S("Minimum")).n
             hi == Get(pmField, S("Maximum")).n
         IN  /\ (NumGeq(lo, Zero) /\ NumLeq(hi, MaxUint32)) => TypeIs(pmField, "uint32")
             /\ (NumGeq(lo, Zero) /\ NumGreater(hi, MaxUint32)) => TypeIs(pmField, "uint64")
             /\ (NumLess(lo, Zero) /\ NumLeq(hi, MaxInt32)) => TypeIs(pmField, "int32")
             /\ (NumLess(lo, Zero) /\ NumGreater(hi, MaxInt32)) => TypeIs(pmField, "int64")

\* Minimum = 0 and Maximum = 4294967295, the largest range of uint32.
C8_Witness ==
  /\ pc = "resolved"
  /\ IsIntField(pmField)
  /\ BothBounds(pmField)
  /\ Get(pmField, S("Minimum")).n = Zero
  /\ Get(pmField, S("Maximum")).n = MaxUint32
  /\ TypeIs(pmField, "uint32")

\* The integers each width represents.
WidthRange(w) ==
  CASE w = "uint32" -> [lo |-> Zero, hi |-> MaxUint32]
    [] w = "int32"  -> [lo |-> Num(TRUE, <<0, 0, 0, 32768, 0>>), hi |-> MaxInt32]
    [] w = "uint64" -> [lo |-> Zero, hi |-> Num(FALSE, <<0, 65535, 65535, 65535, 65535>>)]
    [] w = "int64"  -> [lo |-> Num(TRUE, <<0, 32768, 0, 0, 0>>),
                        hi |-> Num(FALSE, <<0, 32767, 65535, 65535, 65535>>)]

Fits(w, lo, hi) == NumLeq(WidthRange(w).lo, lo) /\ NumLeq(hi, WidthRange(w).hi)

\* C9: for declared bounds Minimum <= Maximum (that some width represents)
\* the resolved width represents every integer of the range and no 32-bit
\* width does when a 64-bit width was chosen; with both bounds absent the
\* width is int64.
C9_NarrowestWidth ==
  (pc = "resolved" /\ IsIntField(pmField)) =>
    /\ NoBounds(pmField) => TypeIs(pmField, "int64")
    /\ BothBounds(pmField) =>
         LET lo == Get(pmField, S("Minimum")).n
             hi == Get(pmField, S("Maximum")).n
         IN  (NumLeq(lo, hi) /\ \E w \in {"uint32", "int32", "uint64", "int64"} : Fits(w, lo, hi))
               => \E w \in {"uint32", "int32", "uint64", "int64"} :
                    /\ TypeIs(pmField, w)
                    /\ Fits(w, lo, hi)
                    /\ w \in {"uint64", "int64"} =>
                         ~Fits("uint32", lo, hi) /\ ~Fits("int32", lo, hi)

----------------------------------------------------------------------------
(* C10 *)

DottedKeys(M) == {k \in KeySet(M) : Len(k) >= 2}

PlainKeys(M) == {k \in KeySet(M) : Len(k) = 1}

RelatedModel(k) == S(k[2])

RelatedId(k) == S(k[2] \o "Id")

Generated(k) == {RelatedModel(k), RelatedId(k)}

\* The fields models.json has for a model that was rendered.
SourceOf(r) == ModelAt(modelsFile.json, <<S(r.package), S(r.modelTitleCase)>>)

ResolvedUuid(R, key) ==
  /\ Has(R, key)
  /\ Has(Get(R, key), S("type"))
  /\ Get(Get(R, key), S("type")) = Str(<<"uuid", "UUID">>)

\* The two names of every dotted key are new to the model and to one another.
NoClash(M) ==
  \A k \in DottedKeys(M) :
    /\ Generated(k) \cap PlainKeys(M) = {}
    /\ \A k2 \in DottedKeys(M) \ {k} : Generated(k) \cap Generated(k2) = {}

\* C10 as the claim has it: whatever the keys of the model, the rendered
\* fields are one more per dotted key, every dotted key is gone, its two
\* fields are there and the identifier field resolves to uuid.UUID.
C10_Original ==
  \A i \in DOMAIN pmRendered :
    LET M == SourceOf(pmRendered[i])
        R == pmRendered[i].fields
    IN  /\ Len(R) = Len(M) + Cardinality(DottedKeys(M))
        /\ \A k \in DottedKeys(M) :
             /\ ~Has(R, k)
             /\ Has(R, RelatedModel(k))
             /\ ResolvedUuid(R, RelatedId(k))

\* C10, amended: the rendered fields of a model are its plain keys and, for
\* each dotted key <pkg>.<relatedModel>, the keys <relatedModel> and
\* <relatedModel>Id; the count grows by one per dotted key exactly when
\* those names are new to the model and to one another; and the field
\* <relatedModel>Id resolves to uuid.UUID unless another dotted key names a
\* related model <relatedModel>Id.
C10_RelationsReplaceDottedKeys ==
  \A i \in DOMAIN pmRendered :
    LET M == SourceOf(pmRendered[i])
        R == pmRendered[i].fields
    IN  /\ KeySet(R) = PlainKeys(M) \cup UNION {Generated(k) : k \in DottedKeys(M)}
        /\ NoClash(M) <=> Len(R) = Len(M) + Cardinality(DottedKeys(M))
        /\ \A k \in DottedKeys(M) :
             (\A k2 \in DottedKeys(M) : RelatedModel(k2) # RelatedId(k))
               => ResolvedUuid(R, RelatedId(k))

\* A model with a plain key and two dotted keys of different related models
\* was rendered, each dotted key having become two fields.
C10_Witness ==
  \E i \in DOMAIN pmRendered :
    LET M == SourceOf(pmRendered[i])
        R == pmRendered[i].fields
    IN  /\ Cardinality(DottedKeys(M)) = 2
        /\ PlainKeys(M) # {}
        /\ NoClash(M)
        /\ Len(R) = Len(M) + 2
        /\ \A k \in DottedKeys(M) : ResolvedUuid(R, RelatedId(k))

----------------------------------------------------------------------------
(* C11 *)

\* C11: no field key with a dot is among the fields of any model handed to
\* the models template.
C11_NoDottedKeyRendered ==
  \A i \in DOMAIN pmRendered :
    \A k \in KeySet(pmRendered[i].fields) : Len(k) = 1

\* A model whose only fields in models.json are dotted was rendered.
C11_Witness ==
  \E i \in DOMAIN pmRendered :
    /\ DottedKeys(SourceOf(pmRendered[i])) # {}
    /\ PlainKeys(SourceOf(pmRendered[i])) = {}
    /\ \A k \in KeySet(pmRendered[i].fields) : Len(k) = 1

----------------------------------------------------------------------------
(* C12 *)

\* C12: every field name in an action list of the route schema is a field of
\* its package/model after segregation and has no dot.
C12_RouteFieldsAreNotRelationships ==
  pc = "writeModels" =>
    LET segregated == Segregated
    IN  \A mp \in ModelPaths(routesData) :
          \A a \in SeqToSet(Actions) :
            \A name \in RouteList(routesData, mp, a) :
              /\ HasModel(segregated, mp)
              /\ Has(ModelAt(segregated, mp), name)
              /\ Len(name) = 1

----------------------------------------------------------------------------
(* C13, C14 *)

\* The model is in a child list of the table.
HasRecordedParent(modelStr, h) ==
  \E i \in DOMAIN h : \E c \in SeqToSet(h[i].v) : ModelStr(c) = modelStr

\* C13: in the output of sortModelsByHierarchy every model that is in no
\* child list of the table precedes every model that is in one.
C13_ParentlessFirst ==
  pc = "sorted" =>
    \A i, j \in DOMAIN pmSorted :
      (~HasRecordedParent(pmSorted[i], pmHierarchy)
         /\ HasRecordedParent(pmSorted[j], pmHierarchy)) => i < j

\* A child that came first in the input stands behind a model without
\* parents in the output.
C13_Witness ==
  /\ pc = "sorted"
  /\ Len(pmAllModelStrs) >= 2
  /\ HasRecordedParent(pmAllModelStrs[1], pmHierarchy)
  /\ ~HasRecordedParent(pmAllModelStrs[2], pmHierarchy)
  /\ pmSorted[1] = pmAllModelStrs[2]

\* C14: the output of sortModelsByHierarchy has every model of its input,
\* each once, whatever the table.
C14_SortedIsPermutation ==
  pc = "sorted" =>
    /\ Len(pmSorted) = Len(pmAllModelStrs)
    /\ SeqToSet(pmSorted) = SeqToSet(pmAllModelStrs)
    /\ \A i, j \in DOMAIN pmSorted : pmSorted[i] = pmSorted[j] => i = j

\* Three models that are each other's children in a cycle, one of them its
\* own child as well.
C14_Witness ==
  /\ pc = "sorted"
  /\ Len(pmAllModelStrs) = 3
  /\ \A i \in DOMAIN pmAllModelStrs : HasRecordedParent(pmAllModelStrs[i], pmHierarchy)
  /\ Len(pmHierarchy) = 3
  /\ \E i \in DOMAIN pmHierarchy : pmHierarchy[i].k \in SeqToSet(pmHierarchy[i].v)
  /\ Len(pmSorted) = 3
  /\ SeqToSet(pmSorted) = SeqToSet(pmAllModelStrs)

----------------------------------------------------------------------------
(* C15 *)

\* The place of a model in a list of `${packageCamelCase}Models.${model}`.
PlaceIn(list, name) == CHOOSE i \in DOMAIN list : list[i] = ModelStr(name)

\* C15: a model of models.json that a dotted field key of another model
\* names stands before that model in sortedModels.
C15_ParentsPrecedeChildren ==
  pc = "emitted" =>
    \A mp \in ModelPaths(modelsFile.json) :
      \A k \in DottedKeys(ModelAt(modelsFile.json, mp)) :
        LET child == <<mp[1][1], mp[2][1]>>
            parent == <<k[1], k[2]>>
        IN  (HasModel(modelsFile.json, <<S(k[1]), S(k[2])>>) /\ parent # child)
              => /\ ModelStr(parent) \in SeqToSet(pmSorted)
                 /\ ModelStr(child) \in SeqToSet(pmSorted)
                 /\ PlaceIn(pmSorted, parent) < PlaceIn(pmSorted, child)

----------------------------------------------------------------------------
(* C16, C17 *)

\* No step of xlsxToJSON is left to take.
RunEnded == pc \in {"done", "hung"}

\* An exception ended the executor, or a write did not happen.
RunFailed == pc = "hung" \/ ~modelsFile.written \/ ~routesFile.written

\* C16: when a run of xlsxToJSON in which something failed has ended, the
\* promise it returned is rejected: not pending for ever, not resolved.
C16_FailuresReject == (RunEnded /\ RunFailed) => promise = "rejected"

\* C17: when a run of xlsxToJSON has ended, models.json and
\* routesFromModels.json were both written by it or neither was.
C17_BothOrNeither == RunEnded => (modelsFile.written <=> routesFile.written)

----------------------------------------------------------------------------
(* C18, C19 *)

\* C18: the models the db.go template is given are in the order
\* sortModelsByHierarchy computed.
C18_DbGetsSortedModels == pc = "emitted" => pmDb.allModelStrs = pmSorted

\* C19: for every model processed, each of its dotted field keys is a key of
\* the hierarchy table and the model's qualified name is in its list.
C19_EveryDottedKeyRecorded ==
  \A i \in DOMAIN pmRendered :
    \A k \in DottedKeys(SourceOf(pmRendered[i])) :
      /\ Has(pmHierarchy, k)
      /\ <<pmRendered[i].package, pmRendered[i].modelTitleCase>>
           \in SeqToSet(Get(pmHierarchy, k))

----------------------------------------------------------------------------
(* C20 *)

\* A model as extracted has a key partials.X and the partials have no X.
UnresolvedRef(md, parts) ==
  \E mp \in ModelPaths(md) :
    \E k \in KeySet(ModelAt(md, mp)) : IsPartialRef(k) /\ ~Has(parts, Tail(k))

\* C20: with such a key in a model, the run does not stop in fillPartials
\* with the models as they were extracted.
C20_UnresolvedPartialIsSkipped ==
  LET r == Extracted
  IN  (pc \notin {"extract", "fillPartials"} /\ ~r.threw
         /\ UnresolvedRef(r.modelsData, r.partials))
        => ~(pc = "hung" /\ modelsData = r.modelsData)

----------------------------------------------------------------------------
(* C21 *)

OnlyMaximum(f) == ~Has(f, S("Minimum")) /\ Has(f, S("Maximum"))

OnlyMinimum(f) == Has(f, S("Minimum")) /\ ~Has(f, S("Maximum"))

\* With only Minimum given Maximum is above every threshold of the table.
OnlyMinimumResolved(f) ==
  OnlyMinimum(f) =>
    LET lo == Get(f, S("Minimum")).n
    IN  /\ NumGeq(lo, Zero) => TypeIs(f, "uint64")
        /\ NumLess(lo, Zero) => TypeIs(f, "int64")

\* C21 as the claim has it: a missing Minimum is 0, so with only Maximum
\* given the width is uint32 up to 2^32-1 and uint64 above.
C21_Original ==
  (pc = "resolved" /\ IsIntField(pmField)) =>
    /\ OnlyMinimumResolved(pmField)
    /\ OnlyMaximum(pmField) =>
         LET hi == Get(pmField, S("Maximum")).n
         IN  /\ NumLeq(hi, MaxUint32) => TypeIs(pmField, "uint32")
             /\ NumGreater(hi, MaxUint32) => TypeIs(pmField, "uint64")

\* C21, amended: a missing Minimum is -1, so with only Maximum given the
\* width is int32 up to 2^31-1 and int64 above; a missing Maximum is
\* 18446744073709551615, so with only Minimum given the width is uint64 for
\* Minimum >= 0 and int64 for Minimum < 0.
C21_OneBoundDefaults ==
  (pc = "resolved" /\ IsIntField(pmField)) =>
    /\ OnlyMinimumResolved(pmField)
    /\ OnlyMaximum(pmField) =>
         LET hi == Get(pmField, S("Maximum")).n
         IN  /\ NumLeq(hi, MaxInt32) => TypeIs(pmField, "int32")
             /\ NumGreater(hi, MaxInt32) => TypeIs(pmField, "int64")

\* Only Maximum = 100 was given and the field is int32.
C21_Witness ==
  /\ pc = "resolved"
  /\ IsIntField(pmField)
  /\ OnlyMaximum(pmField)
  /\ Get(pmField, S("Maximum")).n = Num(FALSE, <<0, 0, 0, 0, 100>>)
  /\ TypeIs(pmField, "int32")

----------------------------------------------------------------------------
(* C22 *)

IsTimeField(f) == typeFromTypesOf(f) = Str(<<"time", "Time">>)

Flagged(f, key) == Has(f, S(key)) /\ Truthy(Get(f, S(key)))

HasPointerType(f) == Has(f, S("type")) /\ Get(f, S("type")) = Str(<<"*time", "Time">>)

HasAutoCreateMarker(f) == Has(f, S("misc")) /\ Get(f, S("misc")) = Text("autoCreateTime")

\* C22: a time.Time field has the type *time.Time if and only if NotNull is
\* not set, and time.Time otherwise, and has the marker autoCreateTime if and
\* only if AutoCreate is set; a field of another type has neither.
C22_TimeRefinement ==
  pc = "resolved" =>
    IF IsTimeField(pmField)
      THEN /\ HasPointerType(pmField) <=> ~Flagged(pmField, "NotNull")
           /\ ~HasPointerType(pmField) =>
                Get(pmField, S("type")) = Str(<<"time", "Time">>)
           /\ HasAutoCreateMarker(pmField) <=> Flagged(pmField, "AutoCreate")
      ELSE ~HasPointerType(pmField) /\ ~HasAutoCreateMarker(pmField)

\* A time.Time field with NotNull set and AutoCreate set: no pointer, marked.
C22_Witness ==
  /\ pc = "resolved"
  /\ IsTimeField(pmField)
  /\ Flagged(pmField, "NotNull")
  /\ Flagged(pmField, "AutoCreate")
  /\ ~HasPointerType(pmField)
  /\ HasAutoCreateMarker(pmField)

----------------------------------------------------------------------------
(* C23 *)

UuidImport == Get(importStringsMaps, Str(<<"uuid", "UUID">>))

\* A field of the model has the type that the uuid import is for.
HasUuidField(R) == \E e \in SeqToSet(R) : fieldType(e.v) = Str(<<"uuid", "UUID">>)

\* The primary handed to the template is false, and a field that is no
\* relationship's is what the type refinements alone make of it.
PrimaryAndFieldsUntouched(r) ==
  /\ r.Primary = Bool(FALSE)
  /\ \A k \in PlainKeys(SourceOf(r)) \ UNION {Generated(d) : d \in DottedKeys(SourceOf(r))} :
       Get(r.fields, k) = resolveField(Get(SourceOf(r), k))

\* C23 as the claim has it: setPrimarykey changes nothing, so that the uuid
\* import is in the import list of a model only for a uuid.UUID field.
C23_Original ==
  \A i \in DOMAIN pmRendered :
    /\ PrimaryAndFieldsUntouched(pmRendered[i])
    /\ UuidImport \in SeqToSet(pmRendered[i].imports)
         <=> HasUuidField(pmRendered[i].fields)

\* C23, amended: setPrimarykey changes neither the primary handed to the
\* template nor the field, and the uuid import is in the import list of a
\* model if and only if one of its fields is uuid.UUID or is not marked
\* Primary.
C23_PrimaryKeyHelperImports ==
  \A i \in DOMAIN pmRendered :
    /\ PrimaryAndFieldsUntouched(pmRendered[i])
    /\ UuidImport \in SeqToSet(pmRendered[i].imports)
         <=> \/ HasUuidField(pmRendered[i].fields)
             \/ \E e \in SeqToSet(pmRendered[i].fields) : ~Flagged(e.v, "Primary")

\* A model without a uuid.UUID field was rendered with the uuid import, for
\* its field that is not marked Primary.
C23_Witness ==
  \E i \in DOMAIN pmRendered :
    /\ ~HasUuidField(pmRendered[i].fields)
    /\ PlainKeys(SourceOf(pmRendered[i])) # {}
    /\ \E e \in SeqToSet(pmRendered[i].fields) : ~Flagged(e.v, "Primary")
    /\ UuidImport \in SeqToSet(pmRendered[i].imports)
    /\ pmRendered[i].Primary = Bool(FALSE)

----------------------------------------------------------------------------
(* C25 *)

\* The entries of the table that have the model as a child.
RecordedParents(modelStr, h) ==
  {i \in DOMAIN h : \E c \in SeqToSet(h[i].v) : ModelStr(c) = modelStr}

RecordedParent(modelStr, h) ==
  ModelStr(h[CHOOSE i \in RecordedParents(modelStr, h) : TRUE].k)

\* Going from parent to parent ends at a model without one in n steps.
RECURSIVE RootWithin(_, _, _)
RootWithin(modelStr, h, n) ==
  IF RecordedParents(modelStr, h) = {} THEN TRUE
  ELSE IF n = 0 THEN FALSE
  ELSE RootWithin(RecordedParent(modelStr, h), h, n - 1)

\* At most one parent each, every parent in the list, no cycle, depth <= 6.
ShallowForest(list, h) ==
  /\ \A i \in DOMAIN h : ModelStr(h[i].k) \in SeqToSet(list)
  /\ \A m \in SeqToSet(list) : Cardinality(RecordedParents(m, h)) <= 1
  /\ \A m \in SeqToSet(list) : RootWithin(m, h, 6)

PlaceOf(list, modelStr) == CHOOSE i \in DOMAIN list : list[i] = modelStr

\* C25: for such a table every model with a recorded parent stands behind
\* that parent in the output of sortModelsByHierarchy, whatever the order of
\* the input.
C25_ChildAfterRecordedParent ==
  (pc = "sorted" /\ ShallowForest(pmAllModelStrs, pmHierarchy)) =>
    \A m \in SeqToSet(pmAllModelStrs) :
      RecordedParents(m, pmHierarchy) # {} =>
        PlaceOf(pmSorted, RecordedParent(m, pmHierarchy)) < PlaceOf(pmSorted, m)

\* A chain of depth 6 given deepest model first comes out root first.
C25_Witness ==
  /\ pc = "sorted"
  /\ Len(pmAllModelStrs) = 7
  /\ ShallowForest(pmAllModelStrs, pmHierarchy)
  /\ \A i \in 1..6 :
       /\ RecordedParents(pmAllModelStrs[i], pmHierarchy) # {}
       /\ RecordedParent(pmAllModelStrs[i], pmHierarchy) = pmAllModelStrs[i + 1]
  /\ pmSorted = Reverse(pmAllModelStrs)

----------------------------------------------------------------------------
(* C24 *)

\* The call of the phase has ended in the given way.
PhaseEnded(phase, how) ==
  \E i \in DOMAIN pmFlow.ran :
    pmFlow.ran[i].phase = phase /\ pmFlow.ran[i].how = how

\* The phase was executed.
PhaseRan(phase) == \E i \in DOMAIN pmFlow.ran : pmFlow.ran[i].phase = phase

\* The first phase did not do its work: the sheet was not fetched, or the
\* extraction threw or did not write both files.
DownloadPhaseFailed ==
  \/ pmFlow.fetch = "failed"
  \/ pmFlow.extraction \in {"threw", "modelsOnly", "notWritten"}
  \/ PhaseEnded("downloadFromDriveAndConvertToJson", "unsettled")

\* C24: in a create a failed phase aborts the run: after a failure of
\* downloadFromDriveAndConvertToJson neither processModels nor processRoutes
\* is executed, and after a failure of processModels processRoutes is not.
C24_FailedPhaseAborts ==
  /\ DownloadPhaseFailed =>
       ~PhaseRan("processModels") /\ ~PhaseRan("processRoutes")
  /\ PhaseEnded("processModels", "rejected") => ~PhaseRan("processRoutes")

----------------------------------------------------------------------------
(* C26 *)

\* C26: xlsxToJSON begins only over a sheet that this run fetched and wrote
\* whole; after a failed fetch it does not run over a missing or stale file.
C26_ExtractionAfterFetch ==
  pmFlow.extraction # "none" =>
    pmFlow.fetch = "ok" /\ pmFlow.sheet = "fresh"


====
